---- MODULE Spec2Model ----
(***************************************************************************)
(* Model of vehicle_follow_node.py (class VehicleFollow).                  *)
(*                                                                         *)
(* Numbers are fixed-point integers: 1.0 is Scale, so dist_ref = 0.15 is   *)
(* 150 and one second is 1000.  Products and quotients are rescaled by     *)
(* MulFix and DivFix; np.sin, np.cos and np.linalg.norm are computed by    *)
(* Sin, Cos and norm below.                                                *)
(*                                                                         *)
(* Two specifications are given.  Spec runs every handler to completion,   *)
(* one after the other.  SpecThreads runs them the way rospy does: the     *)
(* subscriber callback, the rospy.Timer callback and the shutdown hook     *)
(* each on a thread of its own, interleaved between statements.            *)
(***************************************************************************)
EXTENDS Integers, Sequences, FiniteSets, TLC

\* Fixed-point unit: 1.0 = 10^3.
Scale == 10 * 10 * 10

\* Bounds of the model: observations handled under Spec; observations
\* delivered and timer events fired under SpecThreads.
MaxObs == 3
MaxCalls == 1
MaxRefresh == 1

Abs(a) == IF a < 0 THEN -a ELSE a

\* Quotient rounded toward zero, any signs (d # 0).
Trunc(n, d) ==
    IF d < 0 THEN (IF n <= 0 THEN (-n) \div (-d) ELSE -(n \div (-d)))
    ELSE (IF n >= 0 THEN n \div d ELSE -((-n) \div d))

MulFix(a, b) == Trunc(a * b, Scale)
DivFix(a, b) == Trunc(a * Scale, b)

\* np.sin and np.cos by their Taylor polynomials (the latency angles are small).
Sin(t) ==
    LET t2 == MulFix(t, t)
        t3 == MulFix(t2, t)
        t5 == MulFix(t3, t2)
    IN  t - Trunc(t3, 6) + Trunc(t5, 120)

Cos(t) ==
    LET t2 == MulFix(t, t)
        t4 == MulFix(t2, t2)
    IN  Scale - Trunc(t2, 2) + Trunc(t4, 24)

\* np.linalg.norm of [x, y], rounded down to the fixed-point grid.
RECURSIVE Root(_, _, _)
Root(n, lo, hi) ==
    IF lo = hi THEN lo
    ELSE LET mid == (lo + hi + 1) \div 2
         IN  IF mid * mid <= n THEN Root(n, mid, hi) ELSE Root(n, lo, mid - 1)

norm(x, y) == Root(x * x + y * y, 0, Abs(x) + Abs(y))

\* The threshold 0.000001 of integrate, as its reciprocal.
EpsInv == 1000000

----------------------------------------------------------------------------
\* Configuration (the nine parameters of __init__).

DefaultConfig ==
    [dist_ref |-> 150, head_ref |-> 0, k_follow |-> 1000, k_heading |-> 1000,
     head_thres |-> 785, max_speed |-> 400, max_heading |-> 200,
     deadspace_speed |-> 50, deadspace_heading |-> 200]

\* A retuned configuration: far reference, higher gains, narrow dead-bands.
FarConfig ==
    [dist_ref |-> 800, head_ref |-> 100, k_follow |-> 2000, k_heading |-> 2000,
     head_thres |-> 785, max_speed |-> 300, max_heading |-> 400,
     deadspace_speed |-> 100, deadspace_heading |-> 100]

\* An unvalidated configuration: each dead-band exceeds its limit.
WideDeadConfig ==
    [dist_ref |-> 150, head_ref |-> 0, k_follow |-> 1000, k_heading |-> 1000,
     head_thres |-> 785, max_speed |-> 100, max_heading |-> 100,
     deadspace_speed |-> 300, deadspace_heading |-> 300]

\* What the parameter server may hold.
Configs == {DefaultConfig, FarConfig, WideDeadConfig}

\* The fields cb_pose reads.
Used(c) ==
    [dist_ref |-> c.dist_ref, head_ref |-> c.head_ref, k_follow |-> c.k_follow,
     k_heading |-> c.k_heading, max_speed |-> c.max_speed,
     max_heading |-> c.max_heading, deadspace_speed |-> c.deadspace_speed,
     deadspace_heading |-> c.deadspace_heading]

UsedFields ==
    {"dist_ref", "head_ref", "k_follow", "k_heading", "max_speed", "max_heading",
     "deadspace_speed", "deadspace_heading"}

NoConfig == [f \in UsedFields |-> 0]

----------------------------------------------------------------------------
\* Messages.

\* VehiclePose(): the zero-initialised message.
VehiclePose0 == [detection |-> FALSE, stamp |-> 0, x |-> 0, y |-> 0, theta |-> 0]

\* Twist2DStamped() with v = omega = 0.0.
Twist0 == [stamp |-> 0, v |-> 0, omega |-> 0]

\* Observed relative poses <<x, y, theta>>.
Poses ==
    { <<600, 0, 0>>, <<200, 0, 200>>, <<180, 0, 100>>,
      <<300, 400, 300>>, <<0, 0, -500>> }

\* Age of an observation when it is delivered; negative under clock skew.
Latencies == {0, Scale \div 2, -(Scale \div 2)}

\* Time between two deliveries, and the time at start-up.
TickLen == Scale \div 2
Time0 == Scale

\* The observations that can be delivered at time t.
Observations(t) ==
    { [detection |-> TRUE, stamp |-> t - l, x |-> p[1], y |-> p[2], theta |-> p[3]] :
        p \in Poses, l \in Latencies }
    \cup { [detection |-> FALSE, stamp |-> t - l, x |-> 0, y |-> 0, theta |-> 0] :
        l \in Latencies }

----------------------------------------------------------------------------
VARIABLES
    cfg,                \* self.dist_ref ... self.deadspace_heading
    car_cmd_msg,        \* self.car_cmd_msg
    last_omega,         \* self.last_omega
    last_v,             \* self.last_v
    last_vehicle_pose,  \* self.last_vehicle_pose
    subscribed,         \* self.sub_target_pose is registered
    now,                \* rospy.Time.now()
    pub,                \* the latest publication on ~car_cmd
    prev,               \* the publication before it
    nPub,               \* publications so far
    nObs,               \* observations delivered to cb_pose
    nRefresh,           \* timer events fired
    pcCb, msg, loc,     \* subscriber thread: position, message, locals
    pcTimer, params_new,\* timer thread: position, parameters read
    pcSd                \* shutdown hook: position

vars ==
    <<cfg, car_cmd_msg, last_omega, last_v, last_vehicle_pose, subscribed, now,
      pub, prev, nPub, nObs, nRefresh, pcCb, msg, loc, pcTimer, params_new, pcSd>>

selfVars == <<car_cmd_msg, last_omega, last_v, last_vehicle_pose>>
pubVars == <<pub, prev, nPub>>
cbVars == <<pcCb, msg, loc>>
timerVars == <<pcTimer, params_new>>

\* The locals of one cb_pose call; rd, seen and torn record the configuration
\* fields it has read, and whether two reads of one field differed.
Loc0 ==
    [delta_t |-> 0, int_omega |-> 0, int_v |-> 0, actual_rho |-> 0,
     actual_theta |-> 0, following_error |-> 0, heading_error |-> 0,
     rd |-> NoConfig, seen |-> {}, torn |-> FALSE]

\* One publication on ~car_cmd, with what the handler saw when it published.
Published(src, cmd, m, l, t) ==
    [src |-> src, stamp |-> cmd.stamp, v |-> cmd.v, omega |-> cmd.omega,
     det |-> m.detection, obs_stamp |-> m.stamp, at |-> t,
     int_omega |-> l.int_omega, int_v |-> l.int_v,
     rho |-> l.actual_rho, theta |-> l.actual_theta,
     cfg |-> l.rd, seen |-> l.seen, torn |-> l.torn]

NoPub == Published("none", Twist0, VehiclePose0, Loc0, 0)

\* What is kept of the publication before the latest.
Brief(e) == [src |-> e.src, det |-> e.det, stamp |-> e.stamp, v |-> e.v, omega |-> e.omega]

\* pub_car_cmd.publish(car_cmd_msg): the message is serialised as it is now.
Publish(src, cmd, m, l, t) ==
    /\ pub' = Published(src, cmd, m, l, t)
    /\ prev' = Brief(pub)
    /\ nPub' = nPub + 1

\* __init__: any configuration may be stored at start-up.
Init ==
    /\ cfg \in Configs
    /\ car_cmd_msg = Twist0
    /\ last_omega = 0
    /\ last_v = 0
    /\ last_vehicle_pose = VehiclePose0
    /\ subscribed = TRUE
    /\ now = Time0
    /\ pub = NoPub
    /\ prev = Brief(NoPub)
    /\ nPub = 0
    /\ nObs = 0
    /\ nRefresh = 0
    /\ pcCb = "idle"
    /\ msg = VehiclePose0
    /\ loc = Loc0
    /\ pcTimer = "idle"
    /\ params_new = cfg
    /\ pcSd = "idle"

----------------------------------------------------------------------------
\* Kinematic predictor.

integrate(theta_dot, v, dt) ==
    LET theta_delta == MulFix(theta_dot, dt)
    IN  IF Abs(theta_dot) * EpsInv < Scale
        THEN <<theta_delta, MulFix(v, dt), 0>>
        ELSE LET radius == DivFix(v, theta_dot)
             IN  <<theta_delta,
                   MulFix(radius, Sin(theta_delta)),
                   MulFix(radius, Scale - Cos(theta_delta))>>

----------------------------------------------------------------------------
\* The pieces of cb_pose.

\* The detection-loss branch: header copied, command zeroed.
StopKeepsCommand(cmd, m) == [cmd EXCEPT !.stamp = m.stamp]
StopKeepsHeader(cmd, m) == [cmd EXCEPT !.v = 0, !.omega = 0]
StopCommand(cmd, m) == [cmd EXCEPT !.stamp = m.stamp, !.v = 0, !.omega = 0]

\* What is handed to integrate: (theta_dot, v) = (omega, v) of the held command.
IntegrateArgsSwapped(cmd) == <<cmd.v, cmd.omega>>
IntegrateArgs(cmd) == <<cmd.omega, cmd.v>>

\* Latency compensation: the corrected distance and heading.
Compensate(m, d) ==
    LET actual_x == m.x - d[2]
        actual_y == m.y - d[3]
    IN  [rho |-> norm(actual_x, actual_y), theta |-> m.theta - d[1]]

\* Distance channel.
SpeedChannelLe(actual_rho, c) ==
    LET following_error == actual_rho - c.dist_ref
        v0 == MulFix(c.k_follow, following_error)
        v1 == IF v0 > c.max_speed THEN v0 ELSE v0
    IN  IF v1 < -c.max_speed THEN -c.max_speed
        ELSE IF Abs(v1) <= c.deadspace_speed THEN 0
        ELSE v1

SpeedChannel(actual_rho, c) ==
    LET following_error == actual_rho - c.dist_ref
        v0 == MulFix(c.k_follow, following_error)
        v1 == IF v0 > c.max_speed THEN v0 ELSE v0
    IN  IF v1 < -c.max_speed THEN -c.max_speed
        ELSE IF Abs(v1) < c.deadspace_speed THEN 0
        ELSE v1

\* Heading channel.
HeadingChannelDeadFirst(actual_theta, c) ==
    LET heading_error == actual_theta - c.head_ref
        w0 == MulFix(c.k_heading, heading_error)
    IN  IF Abs(w0) < c.deadspace_heading THEN 0
        ELSE IF w0 > c.max_heading THEN c.max_heading
        ELSE IF w0 < -c.max_heading THEN -c.max_heading
        ELSE w0

HeadingChannel(actual_theta, c) ==
    LET heading_error == actual_theta - c.head_ref
        w0 == MulFix(c.k_heading, heading_error)
    IN  IF w0 > c.max_heading THEN c.max_heading
        ELSE IF w0 < -c.max_heading THEN -c.max_heading
        ELSE IF Abs(w0) < c.deadspace_heading THEN 0
        ELSE w0

----------------------------------------------------------------------------
\* Handlers run to completion.  An observation is delivered TickLen after
\* the one before it; t is the time of the call.

cb_pose(m, t) ==
    /\ subscribed
    /\ pcSd = "idle"
    /\ nObs < MaxObs
    /\ nObs' = nObs + 1
    /\ now' = t
    /\ IF ~m.detection
       THEN /\ car_cmd_msg' = StopCommand(car_cmd_msg, m)
            /\ Publish("cb_pose", car_cmd_msg', m, Loc0, t)
            /\ UNCHANGED <<last_omega, last_v>>
       ELSE LET delta_t == t - m.stamp
                args == IntegrateArgs(car_cmd_msg)
                d == integrate(args[1], args[2], delta_t)
                actual == Compensate(m, d)
                l == [Loc0 EXCEPT !.delta_t = delta_t,
                                  !.int_omega = args[1], !.int_v = args[2],
                                  !.actual_rho = actual.rho,
                                  !.actual_theta = actual.theta,
                                  !.rd = Used(cfg), !.seen = UsedFields]
            IN  /\ car_cmd_msg' = [stamp |-> m.stamp,
                                   v |-> SpeedChannel(actual.rho, cfg),
                                   omega |-> HeadingChannel(actual.theta, cfg)]
                /\ last_omega' = car_cmd_msg'.omega
                /\ last_v' = car_cmd_msg'.v
                /\ Publish("cb_pose", car_cmd_msg', m, l, t)
    /\ last_vehicle_pose' = m
    /\ UNCHANGED <<cfg, subscribed, pcSd, nRefresh>>
    /\ UNCHANGED cbVars
    /\ UNCHANGED timerVars

Observe == \E m \in Observations(now + TickLen) : cb_pose(m, now + TickLen)

\* The timer event: the nine parameters are read, and stored if any differs.
update_params_event(p) ==
    /\ pcSd = "idle"
    /\ cfg' = IF cfg # p THEN p ELSE cfg
    /\ UNCHANGED <<subscribed, now, nObs, pcSd, nRefresh>>
    /\ UNCHANGED selfVars
    /\ UNCHANGED pubVars
    /\ UNCHANGED cbVars
    /\ UNCHANGED timerVars

Refresh == \E p \in Configs : update_params_event(p)

custom_shutdown ==
    /\ pcSd = "idle"
    /\ subscribed' = FALSE
    /\ car_cmd_msg' = [car_cmd_msg EXCEPT !.v = 0, !.omega = 0]
    /\ Publish("custom_shutdown", car_cmd_msg', last_vehicle_pose, Loc0, now)
    /\ pcSd' = "done"
    /\ UNCHANGED <<cfg, last_omega, last_v, last_vehicle_pose, now, nObs, nRefresh>>
    /\ UNCHANGED cbVars
    /\ UNCHANGED timerVars

Next ==
    \/ Observe
    \/ Refresh
    \/ custom_shutdown

Spec == Init /\ [][Next]_vars

----------------------------------------------------------------------------
\* The same handlers on rospy's threads, one statement at a time.  The names
\* of the steps are the lines of the statements.

\* A read of self.<f> by cb_pose.
Read(l, f) ==
    [l EXCEPT !.rd[f] = cfg[f],
              !.seen = @ \cup {f},
              !.torn = @ \/ (f \in l.seen /\ l.rd[f] # cfg[f])]

CbStep(from, to) ==
    /\ pcCb = from
    /\ pcSd # "done"
    /\ pcCb' = to
    /\ UNCHANGED <<cfg, subscribed, now, nObs, nRefresh, pcSd, msg>>
    /\ UNCHANGED timerVars

\* The subscriber thread calls cb_pose with the next observation.
deliver(m) ==
    /\ subscribed
    /\ pcCb = "idle"
    /\ pcSd # "done"
    /\ nObs < MaxCalls
    /\ nObs' = nObs + 1
    /\ now' = now + TickLen
    /\ msg' = m
    /\ loc' = Loc0
    /\ pcCb' = "l103"
    /\ UNCHANGED <<cfg, subscribed, pcSd, nRefresh>>
    /\ UNCHANGED selfVars
    /\ UNCHANGED pubVars
    /\ UNCHANGED timerVars

Deliver == \E m \in Observations(now + TickLen) : deliver(m)

cb_l103 ==
    /\ CbStep("l103", IF ~msg.detection THEN "l106" ELSE "l115")
    /\ UNCHANGED <<loc>>
    /\ UNCHANGED selfVars
    /\ UNCHANGED pubVars

cb_l106 ==
    /\ CbStep("l106", "l107")
    /\ car_cmd_msg' = [car_cmd_msg EXCEPT !.stamp = msg.stamp]
    /\ UNCHANGED <<loc, last_omega, last_v, last_vehicle_pose>>
    /\ UNCHANGED pubVars

cb_l107 ==
    /\ CbStep("l107", "l108")
    /\ car_cmd_msg' = [car_cmd_msg EXCEPT !.v = 0]
    /\ UNCHANGED <<loc, last_omega, last_v, last_vehicle_pose>>
    /\ UNCHANGED pubVars

cb_l108 ==
    /\ CbStep("l108", "l109")
    /\ car_cmd_msg' = [car_cmd_msg EXCEPT !.omega = 0]
    /\ UNCHANGED <<loc, last_omega, last_v, last_vehicle_pose>>
    /\ UNCHANGED pubVars

cb_l109 ==
    /\ CbStep("l109", "l156")
    /\ Publish("cb_pose", car_cmd_msg, msg, loc, now)
    /\ UNCHANGED <<loc>>
    /\ UNCHANGED selfVars

cb_l115 ==
    /\ CbStep("l115", "l116")
    /\ loc' = [loc EXCEPT !.delta_t = now - msg.stamp]
    /\ UNCHANGED selfVars
    /\ UNCHANGED pubVars

\* The arguments of integrate are read left to right: omega, then v.
cb_l116 ==
    /\ CbStep("l116", "l116v")
    /\ loc' = [loc EXCEPT !.int_omega = car_cmd_msg.omega]
    /\ UNCHANGED selfVars
    /\ UNCHANGED pubVars

\* v is read, integrate is called, and lines 118-122 work on locals.
cb_l116v ==
    /\ CbStep("l116v", "l124")
    /\ LET d == integrate(loc.int_omega, car_cmd_msg.v, loc.delta_t)
           actual == Compensate(msg, d)
       IN  loc' = [loc EXCEPT !.int_v = car_cmd_msg.v,
                              !.actual_rho = actual.rho,
                              !.actual_theta = actual.theta]
    /\ UNCHANGED selfVars
    /\ UNCHANGED pubVars

cb_l124 ==
    /\ CbStep("l124", "l126")
    /\ car_cmd_msg' = [car_cmd_msg EXCEPT !.stamp = msg.stamp]
    /\ UNCHANGED <<loc, last_omega, last_v, last_vehicle_pose>>
    /\ UNCHANGED pubVars

cb_l126 ==
    /\ CbStep("l126", "l127")
    /\ loc' = [Read(loc, "dist_ref") EXCEPT
                  !.following_error = loc.actual_rho - cfg.dist_ref]
    /\ UNCHANGED selfVars
    /\ UNCHANGED pubVars

cb_l127 ==
    /\ CbStep("l127", "l129")
    /\ car_cmd_msg' = [car_cmd_msg EXCEPT !.v = MulFix(cfg.k_follow, loc.following_error)]
    /\ loc' = Read(loc, "k_follow")
    /\ UNCHANGED <<last_omega, last_v, last_vehicle_pose>>
    /\ UNCHANGED pubVars

cb_l129 ==
    /\ CbStep("l129", IF car_cmd_msg.v > cfg.max_speed THEN "l130" ELSE "l131")
    /\ loc' = Read(loc, "max_speed")
    /\ UNCHANGED selfVars
    /\ UNCHANGED pubVars

cb_l130 ==
    /\ CbStep("l130", "l131")
    /\ car_cmd_msg' = [car_cmd_msg EXCEPT !.v = car_cmd_msg.v]
    /\ UNCHANGED <<loc, last_omega, last_v, last_vehicle_pose>>
    /\ UNCHANGED pubVars

cb_l131 ==
    /\ CbStep("l131", IF car_cmd_msg.v < -cfg.max_speed THEN "l132" ELSE "l133")
    /\ loc' = Read(loc, "max_speed")
    /\ UNCHANGED selfVars
    /\ UNCHANGED pubVars

cb_l132 ==
    /\ CbStep("l132", "l138")
    /\ car_cmd_msg' = [car_cmd_msg EXCEPT !.v = -cfg.max_speed]
    /\ loc' = Read(loc, "max_speed")
    /\ UNCHANGED <<last_omega, last_v, last_vehicle_pose>>
    /\ UNCHANGED pubVars

cb_l133 ==
    /\ CbStep("l133", IF Abs(car_cmd_msg.v) < cfg.deadspace_speed THEN "l134" ELSE "l138")
    /\ loc' = Read(loc, "deadspace_speed")
    /\ UNCHANGED selfVars
    /\ UNCHANGED pubVars

cb_l134 ==
    /\ CbStep("l134", "l138")
    /\ car_cmd_msg' = [car_cmd_msg EXCEPT !.v = 0]
    /\ UNCHANGED <<loc, last_omega, last_v, last_vehicle_pose>>
    /\ UNCHANGED pubVars

cb_l138 ==
    /\ CbStep("l138", "l140")
    /\ loc' = [Read(loc, "head_ref") EXCEPT
                  !.heading_error = loc.actual_theta - cfg.head_ref]
    /\ UNCHANGED selfVars
    /\ UNCHANGED pubVars

cb_l140 ==
    /\ CbStep("l140", "l142")
    /\ car_cmd_msg' = [car_cmd_msg EXCEPT !.omega = MulFix(cfg.k_heading, loc.heading_error)]
    /\ loc' = Read(loc, "k_heading")
    /\ UNCHANGED <<last_omega, last_v, last_vehicle_pose>>
    /\ UNCHANGED pubVars

cb_l142 ==
    /\ CbStep("l142", IF car_cmd_msg.omega > cfg.max_heading THEN "l143" ELSE "l144")
    /\ loc' = Read(loc, "max_heading")
    /\ UNCHANGED selfVars
    /\ UNCHANGED pubVars

cb_l143 ==
    /\ CbStep("l143", "l150")
    /\ car_cmd_msg' = [car_cmd_msg EXCEPT !.omega = cfg.max_heading]
    /\ loc' = Read(loc, "max_heading")
    /\ UNCHANGED <<last_omega, last_v, last_vehicle_pose>>
    /\ UNCHANGED pubVars

cb_l144 ==
    /\ CbStep("l144", IF car_cmd_msg.omega < -cfg.max_heading THEN "l145" ELSE "l146")
    /\ loc' = Read(loc, "max_heading")
    /\ UNCHANGED selfVars
    /\ UNCHANGED pubVars

cb_l145 ==
    /\ CbStep("l145", "l150")
    /\ car_cmd_msg' = [car_cmd_msg EXCEPT !.omega = -cfg.max_heading]
    /\ loc' = Read(loc, "max_heading")
    /\ UNCHANGED <<last_omega, last_v, last_vehicle_pose>>
    /\ UNCHANGED pubVars

cb_l146 ==
    /\ CbStep("l146", IF Abs(car_cmd_msg.omega) < cfg.deadspace_heading THEN "l147" ELSE "l150")
    /\ loc' = Read(loc, "deadspace_heading")
    /\ UNCHANGED selfVars
    /\ UNCHANGED pubVars

cb_l147 ==
    /\ CbStep("l147", "l150")
    /\ car_cmd_msg' = [car_cmd_msg EXCEPT !.omega = 0]
    /\ UNCHANGED <<loc, last_omega, last_v, last_vehicle_pose>>
    /\ UNCHANGED pubVars

cb_l150 ==
    /\ CbStep("l150", "l151")
    /\ last_omega' = car_cmd_msg.omega
    /\ UNCHANGED <<loc, car_cmd_msg, last_v, last_vehicle_pose>>
    /\ UNCHANGED pubVars

cb_l151 ==
    /\ CbStep("l151", "l154")
    /\ last_v' = car_cmd_msg.v
    /\ UNCHANGED <<loc, car_cmd_msg, last_omega, last_vehicle_pose>>
    /\ UNCHANGED pubVars

cb_l154 ==
    /\ CbStep("l154", "l156")
    /\ Publish("cb_pose", car_cmd_msg, msg, loc, now)
    /\ UNCHANGED <<loc>>
    /\ UNCHANGED selfVars

cb_l156 ==
    /\ CbStep("l156", "idle")
    /\ last_vehicle_pose' = msg
    /\ UNCHANGED <<loc, car_cmd_msg, last_omega, last_v>>
    /\ UNCHANGED pubVars

\* The timer thread.
TimerStep(from, to) ==
    /\ pcTimer = from
    /\ pcSd # "done"
    /\ pcTimer' = to
    /\ UNCHANGED <<subscribed, now, nObs, pcSd>>
    /\ UNCHANGED selfVars
    /\ UNCHANGED pubVars
    /\ UNCHANGED cbVars

\* Lines 57-69: params_old is taken and the nine parameters are fetched.
timer_l57 ==
    /\ TimerStep("idle", "l71")
    /\ nRefresh < MaxRefresh
    /\ nRefresh' = nRefresh + 1
    /\ params_new' \in Configs
    /\ UNCHANGED cfg

timer_l71 ==
    /\ TimerStep("l71", IF cfg # params_new THEN "l77" ELSE "idle")
    /\ UNCHANGED <<cfg, params_new, nRefresh>>

Assign(from, to, f) ==
    /\ TimerStep(from, to)
    /\ cfg' = [cfg EXCEPT ![f] = params_new[f]]
    /\ UNCHANGED <<params_new, nRefresh>>

timer_l77 == Assign("l77", "l78", "dist_ref")
timer_l78 == Assign("l78", "l79", "head_ref")
timer_l79 == Assign("l79", "l80", "k_follow")
timer_l80 == Assign("l80", "l81", "k_heading")
timer_l81 == Assign("l81", "l82", "head_thres")
timer_l82 == Assign("l82", "l83", "max_speed")
timer_l83 == Assign("l83", "l84", "max_heading")
timer_l84 == Assign("l84", "l85", "deadspace_speed")
timer_l85 == Assign("l85", "idle", "deadspace_heading")

\* The shutdown hook.
SdStep(from, to) ==
    /\ pcSd = from
    /\ pcSd' = to
    /\ UNCHANGED <<cfg, now, nObs, nRefresh>>
    /\ UNCHANGED cbVars
    /\ UNCHANGED timerVars

sd_l91 ==
    /\ SdStep("idle", "l94")
    /\ subscribed' = FALSE
    /\ UNCHANGED selfVars
    /\ UNCHANGED pubVars

sd_l94 ==
    /\ SdStep("l94", "l95")
    /\ car_cmd_msg' = [car_cmd_msg EXCEPT !.v = 0]
    /\ UNCHANGED <<subscribed, last_omega, last_v, last_vehicle_pose>>
    /\ UNCHANGED pubVars

sd_l95 ==
    /\ SdStep("l95", "l96")
    /\ car_cmd_msg' = [car_cmd_msg EXCEPT !.omega = 0]
    /\ UNCHANGED <<subscribed, last_omega, last_v, last_vehicle_pose>>
    /\ UNCHANGED pubVars

sd_l96 ==
    /\ SdStep("l96", "l98")
    /\ Publish("custom_shutdown", car_cmd_msg, last_vehicle_pose, Loc0, now)
    /\ UNCHANGED <<subscribed>>
    /\ UNCHANGED selfVars

\* rospy.sleep(0.5) ends and the hook returns: the process exits.
sd_l98 ==
    /\ SdStep("l98", "done")
    /\ UNCHANGED <<subscribed>>
    /\ UNCHANGED selfVars
    /\ UNCHANGED pubVars

NextThreads ==
    \/ Deliver
    \/ cb_l103 \/ cb_l106 \/ cb_l107 \/ cb_l108 \/ cb_l109
    \/ cb_l115 \/ cb_l116 \/ cb_l116v \/ cb_l124 \/ cb_l126 \/ cb_l127
    \/ cb_l129 \/ cb_l130 \/ cb_l131 \/ cb_l132 \/ cb_l133 \/ cb_l134
    \/ cb_l138 \/ cb_l140 \/ cb_l142 \/ cb_l143 \/ cb_l144 \/ cb_l145
    \/ cb_l146 \/ cb_l147 \/ cb_l150 \/ cb_l151 \/ cb_l154 \/ cb_l156
    \/ timer_l57 \/ timer_l71 \/ timer_l77 \/ timer_l78 \/ timer_l79
    \/ timer_l80 \/ timer_l81 \/ timer_l82 \/ timer_l83 \/ timer_l84
    \/ timer_l85
    \/ sd_l91 \/ sd_l94 \/ sd_l95 \/ sd_l96 \/ sd_l98

SpecThreads == Init /\ [][NextThreads]_vars

----------------------------------------------------------------------------
\* Properties.

FromCb(e) == e.src = "cb_pose"
Detected(e) == e.src = "cb_pose" /\ e.det
Lost(e) == e.src = "cb_pose" /\ ~e.det
FromShutdown(e) == e.src = "custom_shutdown"

\* The step in which cb_pose publishes for an observation without detection.
LostStep == nPub' = nPub + 1 /\ Lost(pub')

\* v_raw and omega_raw of a publication, from what its handler read.
VRaw(e) == MulFix(e.cfg.k_follow, e.rho - e.cfg.dist_ref)
OmegaRaw(e) == MulFix(e.cfg.k_heading, e.theta - e.cfg.head_ref)

\* The reference laws of the two channels.
RefV(raw, c) ==
    IF raw < -c.max_speed THEN -c.max_speed
    ELSE IF Abs(raw) < c.deadspace_speed THEN 0
    ELSE raw

RefOmega(raw, c) ==
    IF raw > c.max_heading THEN c.max_heading
    ELSE IF raw < -c.max_heading THEN -c.max_heading
    ELSE IF Abs(raw) < c.deadspace_heading THEN 0
    ELSE raw

\* C1: the command cb_pose publishes for an observation with detection = false
\* has v = 0 and omega = 0, whatever command and configuration are held.
C1_StopOnDetectionLoss == Lost(pub) => (pub.v = 0 /\ pub.omega = 0)

\* A detection loss right after a detected observation that commanded motion.
C1_Witness ==
    /\ Lost(pub)
    /\ prev.src = "cb_pose" /\ prev.det
    /\ prev.v # 0 /\ prev.omega # 0

\* C2 as stated: handling a detection loss leaves unchanged the (omega, v)
\* that cb_pose will hand to integrate on the next detected observation.
C2_Original ==
    [][LostStep => IntegrateArgs(car_cmd_msg') = IntegrateArgs(car_cmd_msg)]_vars

\* C2 as amended: handling a detection loss leaves last_omega and last_v
\* unchanged, but zeroes the held command, so that the next detected
\* observation hands (0, 0) to integrate.
C2_Amended ==
    /\ [][LostStep => /\ last_omega' = last_omega
                      /\ last_v' = last_v
                      /\ IntegrateArgs(car_cmd_msg') = <<0, 0>>]_vars
    /\ []((Detected(pub) /\ prev.src = "cb_pose" /\ ~prev.det)
            => (pub.int_omega = 0 /\ pub.int_v = 0))

\* After a detection loss: last_v still holds the speed of the detected
\* observation before it, and the held command is zero.
C2_Witness ==
    /\ Lost(pub)
    /\ prev.src = "cb_pose" /\ prev.det /\ prev.v # 0
    /\ last_v = prev.v
    /\ car_cmd_msg.v = 0

\* C3: with max_speed >= 0, the speed published for a detected observation
\* lies in [-max_speed, +max_speed], and is +max_speed when v_raw > max_speed.
C3_SpeedBounded ==
    (Detected(pub) /\ pub.cfg.max_speed >= 0)
        => /\ -pub.cfg.max_speed <= pub.v
           /\ pub.v <= pub.cfg.max_speed
           /\ (VRaw(pub) > pub.cfg.max_speed => pub.v = pub.cfg.max_speed)

\* C4: for a detected observation with v_raw <= max_speed the published v is
\* -max_speed below the floor, else 0 inside the dead-band, else v_raw.
C4_SpeedReference ==
    (Detected(pub) /\ VRaw(pub) <= pub.cfg.max_speed)
        => pub.v = RefV(VRaw(pub), pub.cfg)

\* v_raw on the edge of the dead-band is passed through.
C4_Witness ==
    /\ Detected(pub)
    /\ VRaw(pub) <= pub.cfg.max_speed
    /\ Abs(VRaw(pub)) = pub.cfg.deadspace_speed
    /\ pub.v = VRaw(pub) /\ pub.v # 0

\* C5: for a detected observation the published omega is omega_raw clamped to
\* [-max_heading, +max_heading], or 0 inside the dead-band when not clamped.
C5_HeadingReference ==
    Detected(pub) => pub.omega = RefOmega(OmegaRaw(pub), pub.cfg)

\* A clamped value below the dead-band is published, not zeroed.
C5_Witness ==
    /\ Detected(pub)
    /\ OmegaRaw(pub) > pub.cfg.max_heading
    /\ pub.cfg.max_heading < pub.cfg.deadspace_heading
    /\ pub.omega = pub.cfg.max_heading /\ pub.omega # 0

\* C6: every observation delivered causes exactly one publication, the
\* shutdown hook one more with v = 0 and omega = 0, and that one is the last.
C6_ShutdownLast ==
    /\ (pcCb = "idle" /\ pcSd = "idle") => nPub = nObs
    /\ (pcSd \in {"l98", "done"})
        => /\ FromShutdown(pub) /\ pub.v = 0 /\ pub.omega = 0
           /\ (pcCb = "idle" => nPub = nObs + 1)

\* C7: on the second of two detected observations in a row integrate gets the
\* command published for the first; on the first observation ever it gets (0, 0).
C7_IntegrateArgs ==
    /\ (Detected(pub) /\ prev.src = "cb_pose" /\ prev.det)
        => <<pub.int_omega, pub.int_v>> = <<prev.omega, prev.v>>
    /\ (Detected(pub) /\ nPub = 1)
        => <<pub.int_omega, pub.int_v>> = <<0, 0>>

\* Two detected observations in a row, the first commanding a turn and a speed.
C7_Witness ==
    /\ Detected(pub)
    /\ prev.src = "cb_pose" /\ prev.det
    /\ prev.omega # 0 /\ prev.v # 0 /\ prev.omega # prev.v
    /\ pub.int_omega = prev.omega /\ pub.int_v = prev.v

\* C8 as stated: a command of cb_pose carries the stamp of its observation,
\* and the command of custom_shutdown carries the time of the shutdown.
C8_Original ==
    /\ FromCb(pub) => pub.stamp = pub.obs_stamp
    /\ FromShutdown(pub) => pub.stamp = pub.at

\* C8 as amended: a command of cb_pose carries the stamp of its observation,
\* and the command of custom_shutdown carries the stamp left in car_cmd_msg:
\* that of the last observation handled, or the zero stamp if there was none.
C8_Amended ==
    /\ FromCb(pub) => pub.stamp = pub.obs_stamp
    /\ FromShutdown(pub)
        => pub.stamp = (IF prev.src = "cb_pose" THEN prev.stamp ELSE 0)

\* A shutdown after an observation that was older than the shutdown.
C8_Witness ==
    /\ FromShutdown(pub)
    /\ prev.src = "cb_pose"
    /\ pub.stamp = prev.stamp
    /\ pub.stamp # pub.at

\* C9: the configuration fields one cb_pose call reads all come from one whole
\* configuration, whatever the timer does meanwhile.
C9_WholeSnapshot ==
    Detected(pub)
        => /\ ~pub.torn
           /\ \E c \in Configs : \A f \in pub.seen : pub.cfg[f] = c[f]

\* C10: when each dead-band exceeds its limit, a detected observation is
\* answered with v in {-max_speed, 0, +max_speed} and omega in
\* {-max_heading, 0, +max_heading}.
C10_ZeroOrSaturated ==
    (/\ Detected(pub)
     /\ pub.cfg.deadspace_speed > pub.cfg.max_speed /\ pub.cfg.max_speed >= 0
     /\ pub.cfg.deadspace_heading > pub.cfg.max_heading /\ pub.cfg.max_heading >= 0)
        => /\ pub.v \in {-pub.cfg.max_speed, 0, pub.cfg.max_speed}
           /\ pub.omega \in {-pub.cfg.max_heading, 0, pub.cfg.max_heading}

====
